---- MODULE Spec2Model ----
(***************************************************************************)
(* Model of src/nano-jarvis.js: the chat() client of an OpenAI-compatible  *)
(* chat-completions endpoint, in its buffered and its streaming (SSE)      *)
(* mode.                                                                   *)
(*                                                                         *)
(* Text is a sequence of lexemes.  Every lexeme is a TLA+ string that      *)
(* spells the bytes it stands for, so a text is the concatenation of its   *)
(* lexemes; a chunk boundary falls between two lexemes.  Each lexeme is    *)
(* either pure whitespace or free of whitespace, and only COLON starts     *)
(* with ':'.                                                               *)
(***************************************************************************)
EXTENDS Integers, Sequences, FiniteSets

VARIABLES
    cfgStreaming,   \* LLM_STREAMING (line 8)
    hasHandler,     \* typeof handler === "function" (line 15)
    pc,             \* position of the call: start, fetched, read, lines, returned, threw
    requests,       \* number of fetch() calls issued
    status,         \* response.status of the upstream response (0 before the fetch)
    bodyReads,      \* number of reads of the response body (response.json / reader.read)
    delivered,      \* the chunks reader.read() has yielded so far, in order
    eos,            \* the last reader.read() reported done
    lines,          \* the lines of the chunk being processed (line 73)
    i,              \* index of the next line of the for loop (1-based)
    buffer,         \* pending line (line 67)
    answer,         \* accumulated answer (line 66)
    observed,       \* the arguments of the handler calls so far, in order
    started,        \* a fragment of length > 0 has been taken at line 87
    termSeen,       \* the break of line 81 has been taken
    result,         \* the value chat returned (NoValue before)
    error,          \* the error chat threw (NoErr before)
    sent,           \* the bodies of the requests issued (lines 19-25), in order
    body,           \* the message content of the buffered response (NoValue before)
    calls,          \* the chat calls in flight side by side, each with its own locals
    history,        \* the server's history (line 176)
    conns,          \* the connections of the server, each with its request and response
    alive           \* the server process is running

\* what lies outside the single chat call
outside == <<calls, history, conns, alive>>

\* the single chat call
single == <<cfgStreaming, hasHandler, pc, requests, status, bodyReads, delivered,
            eos, lines, i, buffer, answer, observed, started, termSeen, result, error,
            sent, body>>

vars == <<single, outside>>

(***************************************************************************)
(* Lexemes                                                                 *)
(***************************************************************************)
NL    == "\n"
SP    == " "
DATA  == "data:"
OPEN  == "{\"choices\":[{\"delta\":{"
KEY   == "\"content\":"
Q     == "\""
CLOSE == "}}]}"
DONE  == "[DONE]"
COLON == ":"
NOCH  == "{}"
ARR   == "[\"x\"]"
\* the two bytes of U+00E9 in UTF-8, the character, and the replacement character
E1     == "0xC3"
E2     == "0xA9"
EACUTE == "U+00E9"
FFFD   == "U+FFFD"

\* lexemes that hold a double quote
HasQuote(t) == t \in {Q, OPEN, KEY, ARR}

\* JavaScript white space, as String.prototype.trim sees it
IsSpace(t) == t \in {SP, NL}

(***************************************************************************)
(* Values of `partial` (lines 45-57): null, undefined, a string, or a      *)
(* non-string JSON value (array, object).                                  *)
(***************************************************************************)
Null      == [k |-> "null",  v |-> <<>>]
Undefined == [k |-> "undef", v |-> <<>>]
Str(s)    == [k |-> "str",   v |-> s]
Arr       == [k |-> "arr",   v |-> <<"x">>]
Obj       == [k |-> "obj",   v |-> <<"[object Object]">>]

NoValue == [k |-> "none", v |-> <<>>]

\* partial && ... (line 87): null, undefined and "" are falsy
Truthy(p) == \/ p.k \in {"arr", "obj"}
             \/ p.k = "str" /\ Len(p.v) > 0

\* partial.length > 0 (line 87); an object has no length, undefined > 0 is false
LengthPositive(p) == \/ p.k = "arr"
                     \/ p.k = "str" /\ Len(p.v) > 0

\* string concatenation answer += partial (line 94): ToString of the value
ToText(p) == p.v

(***************************************************************************)
(* String functions                                                        *)
(***************************************************************************)
RECURSIVE TrimStart(_)
TrimStart(s) == IF s # <<>> /\ IsSpace(Head(s)) THEN TrimStart(Tail(s)) ELSE s

RECURSIVE TrimEnd(_)
TrimEnd(s) == IF s # <<>> /\ IsSpace(s[Len(s)])
              THEN TrimEnd(SubSeq(s, 1, Len(s) - 1)) ELSE s

\* String.prototype.trim (lines 39, 90): both ends
Trim(s) == TrimEnd(TrimStart(s))

\* String.prototype.split("\n") (line 73)
RECURSIVE Split(_)
Split(s) ==
    IF \A j \in 1..Len(s) : s[j] # NL THEN <<s>>
    ELSE LET k == CHOOSE j \in 1..Len(s) :
                     s[j] = NL /\ \A m \in 1..(j - 1) : s[m] # NL
         IN <<SubSeq(s, 1, k - 1)>> \o Split(SubSeq(s, k + 1, Len(s)))

(***************************************************************************)
(* JSON.parse and the destructuring of lines 50-53                         *)
(***************************************************************************)
\* JSON white space outside string literals is insignificant
RECURSIVE Squeeze(_, _)
Squeeze(s, inStr) ==
    IF s = <<>> THEN <<>>
    ELSE IF Head(s) = Q THEN <<Q>> \o Squeeze(Tail(s), ~inStr)
    ELSE IF Head(s) = SP /\ ~inStr THEN Squeeze(Tail(s), inStr)
    ELSE <<Head(s)>> \o Squeeze(Tail(s), inStr)

\* The value partial gets from `payload`; Null when JSON.parse or the
\* destructuring throws (the catch of line 54 leaves partial null).
DeltaContent(payload) ==
    LET p == Squeeze(payload, FALSE)
        n == Len(p)
    IN  IF p = <<OPEN, CLOSE>> THEN Undefined
        ELSE IF p = <<OPEN, KEY, ARR, CLOSE>> THEN Arr
        ELSE IF p = <<OPEN, KEY, NOCH, CLOSE>> THEN Obj
        ELSE IF /\ n >= 5
                /\ SubSeq(p, 1, 3) = <<OPEN, KEY, Q>>
                /\ SubSeq(p, n - 1, n) = <<Q, CLOSE>>
                /\ \A j \in 4..(n - 2) : ~HasQuote(p[j])
             THEN Str(SubSeq(p, 4, n - 2))
        ELSE Null

\* parse (lines 44-61)
parse(line) ==
    IF Len(line) >= 2 /\ SubSeq(line, 1, 2) = <<DATA, SP>>
    THEN DeltaContent(SubSeq(line, 3, Len(line)))
    ELSE Null

(***************************************************************************)
(* Lines of an event stream                                                *)
(***************************************************************************)
\* data: {"choices":[{"delta":{"content":"<c>"}}]}
DataLine(c)   == <<DATA, SP, OPEN, KEY, Q>> \o c \o <<Q, CLOSE>>
\* data: {"choices":[{"delta":{}}]}
NoContentLine == <<DATA, SP, OPEN, CLOSE>>
\* data: {"choices":[{"delta":{"content":["x"]}}]}
ArrLine       == <<DATA, SP, OPEN, KEY, ARR, CLOSE>>
\* data: {}
NoChoicesLine == <<DATA, SP, NOCH>>
\* data: {"choices":[{"delta":{      (a complete line, not valid JSON)
BadJsonLine   == <<DATA, SP, OPEN>>
\* event: x                          (no "data: " prefix)
OtherLine     == <<"event:", SP, "x">>
\* : ping
CommentLine   == <<COLON, SP, "ping">>
\* data: [DONE]                      (line 80)
DoneLine      == <<DATA, SP, DONE>>

(***************************************************************************)
(* The streaming decoder (lines 66-101).  A decoder state is the record    *)
(* of the call's locals answer and buffer and of the handler calls made,   *)
(* with brk (the break of line 81 was taken), err (line 90 threw) and      *)
(* started.                                                                *)
(***************************************************************************)
Decoder(b, a, o, st) ==
    [buffer |-> b, answer |-> a, observed |-> o, started |-> st,
     brk |-> FALSE, err |-> FALSE]

\* handler && handler(x) (lines 92, 95)
Notify(o, x) == IF hasHandler THEN Append(o, x) ELSE o

\* the observer gets the fragment as parsed, not as stored
FirstFragment_NotifyRaw(d, partial) ==
    IF partial.k # "str" THEN [d EXCEPT !.err = TRUE]
    ELSE LET leading == Trim(partial.v)
         IN  [d EXCEPT !.answer = leading,
                       !.observed = IF Len(leading) > 0
                                    THEN Notify(@, partial) ELSE @]

\* lines 89-92: nothing accumulated yet.  partial.trim() throws a TypeError
\* when partial is not a string.
FirstFragment(d, partial) ==
    IF partial.k # "str" THEN [d EXCEPT !.err = TRUE]
    ELSE LET leading == Trim(partial.v)
         IN  [d EXCEPT !.answer = leading,
                       !.observed = IF Len(leading) > 0
                                    THEN Notify(@, Str(leading)) ELSE @]

\* the later fragments are trimmed like the first
LaterFragment_Trimmed(d, partial) ==
    [d EXCEPT !.answer = @ \o Trim(ToText(partial)),
              !.observed = Notify(@, Str(Trim(ToText(partial))))]

\* lines 93-96: append verbatim
LaterFragment(d, partial) ==
    [d EXCEPT !.answer = @ \o ToText(partial),
              !.observed = Notify(@, partial)]

\* the observer is notified of every parsed delta, its content empty or not
Accumulate_NotifyAlways(d, line, partial) ==
    IF partial = Null THEN [d EXCEPT !.buffer = line]
    ELSE IF Truthy(partial) /\ LengthPositive(partial)
    THEN LET e == [d EXCEPT !.buffer = <<>>, !.started = TRUE]
         IN  IF Len(d.answer) < 1 THEN FirstFragment(e, partial)
             ELSE LaterFragment(e, partial)
    ELSE [d EXCEPT !.observed = Notify(@, partial)]

\* lines 84-97: what the loop does with the value parse returned
Accumulate(d, line, partial) ==
    IF partial = Null THEN [d EXCEPT !.buffer = line]
    ELSE IF Truthy(partial) /\ LengthPositive(partial)
    THEN LET e == [d EXCEPT !.buffer = <<>>, !.started = TRUE]
         IN  IF Len(d.answer) < 1 THEN FirstFragment(e, partial)
             ELSE LaterFragment(e, partial)
    ELSE d

\* line 76: line[0] === ":"
IsComment(line) == Len(line) > 0 /\ line[1] = COLON

\* line 80: line === "data: [DONE]"
IsTerminator(line) == line = DoneLine

\* the terminator is skipped like a comment and the loop goes on
Terminate_Continue(d) == d

\* lines 80-82: the terminator leaves the for loop
Terminate(d) == [d EXCEPT !.brk = TRUE]

\* One iteration of the for loop (lines 75-98) on the raw line `raw`
LineStep(d, raw) ==
    LET line == d.buffer \o raw
    IN  IF IsComment(line) THEN [d EXCEPT !.buffer = <<>>]
        ELSE IF IsTerminator(line) THEN Terminate(d)
        ELSE IF Len(line) > 0 THEN Accumulate(d, line, parse(line))
        ELSE d

\* The for loop over the lines ls from index j on (lines 74-99)
RECURSIVE Loop(_, _, _)
Loop(d, ls, j) ==
    IF j > Len(ls) \/ d.brk \/ d.err THEN d
    ELSE Loop(LineStep(d, ls[j]), ls, j + 1)

\* TextDecoder.decode of a chunk (line 73), called without {stream: true}:
\* every chunk is decoded on its own, so the two bytes of a character that
\* arrive in one chunk give the character, and a byte of it that arrives
\* without the other gives U+FFFD.  All other lexemes are ASCII.
RECURSIVE Decode(_)
Decode(value) ==
    IF value = <<>> THEN <<>>
    ELSE IF Len(value) >= 2 /\ value[1] = E1 /\ value[2] = E2
    THEN <<EACUTE>> \o Decode(SubSeq(value, 3, Len(value)))
    ELSE IF Head(value) \in {E1, E2} THEN <<FFFD>> \o Decode(Tail(value))
    ELSE <<Head(value)>> \o Decode(Tail(value))

\* One pass of the while loop on a chunk that read() yielded (lines 73-99);
\* a call that threw reads no more.
Feed(d, value) ==
    IF d.err THEN d
    ELSE Loop([d EXCEPT !.brk = FALSE], Split(Decode(value)), 1)

\* The pass over a sequence of chunks
RECURSIVE FeedAll(_, _)
FeedAll(d, cs) == IF cs = <<>> THEN d ELSE FeedAll(Feed(d, Head(cs)), Tail(cs))

(***************************************************************************)
(* The upstream: HTTP statuses, buffered bodies, and the chunks a read of  *)
(* the body stream may yield.  A chunk is any run of bytes: whole lines,   *)
(* several lines, or a piece of a line.                                    *)
(***************************************************************************)
MaxChunks == 3
MaxLiveChunks == 2

Statuses == {200, 404, 500}

\* only the server errors count as failures
Ok_Lenient(s) == s >= 200 /\ s <= 499

\* response.ok (line 27)
Ok(s) == s >= 200 /\ s <= 299

StatusText(s) == IF s = 200 THEN "OK"
                 ELSE IF s = 404 THEN "Not Found"
                 ELSE "Internal Server Error"

Hi      == <<"Hi">>
There   == <<SP, "there">>
Blank   == <<SP>>
HiSpace == <<"Hi", SP>>

\* message contents of buffered responses
Contents == {Hi, <<SP, "Hi", SP>>, <<"Hi", SP, "there">>, <<"Hi", SP>>, <<>>}

\* the first k lexemes of a line, and the rest
HeadPart(l, k) == SubSeq(l, 1, k)
TailPart(l, k) == SubSeq(l, k + 1, Len(l))

Lines == {DataLine(Hi), DataLine(There), DataLine(Blank), DataLine(HiSpace),
          DataLine(<<>>), DataLine(<<E1, E2>>), NoContentLine, ArrLine,
          NoChoicesLine, BadJsonLine, OtherLine, CommentLine, DoneLine}

ChunkMenu ==
    {l \o <<NL>> : l \in Lines}
    \cup {HeadPart(DataLine(Hi), 5), TailPart(DataLine(Hi), 5) \o <<NL>>,
          HeadPart(NoContentLine, 3), TailPart(NoContentLine, 3) \o <<NL>>,
          DoneLine \o <<NL>> \o DataLine(There) \o <<NL>>}

(***************************************************************************)
(* chat (lines 10-102)                                                     *)
(***************************************************************************)
\* the handler is not looked at
Stream_ConfigOnly == cfgStreaming

\* line 15
Stream == cfgStreaming /\ hasHandler

NoErr == [name |-> "none", status |-> 0, text |-> ""]

\* line 28
HttpErr(s) == [name |-> "Error", status |-> s, text |-> StatusText(s)]

\* partial.trim is not a function (line 90)
TypeErr == [name |-> "TypeError", status |-> 0, text |-> ""]

\* the decoder state of the call
Cur == Decoder(buffer, answer, observed, started)

\* the connections that may be open side by side
Slots == {1, 2}

\* no request on the connection
NoConn == [phase |-> "free", inquiry |-> "", messages |-> <<>>, answer |-> <<>>,
           head |-> 0, written |-> <<>>, ended |-> FALSE]

\* the calls that may be in flight side by side
Callers == {1, 2}

\* lines 66-67: let answer = ""; let buffer = "";
Fresh == Decoder(<<>>, <<>>, <<>>, FALSE)

\* a call not yet made
NewCall == [pc |-> "start", delivered |-> <<>>, d |-> Fresh, result |-> NoValue]

Init ==
    /\ cfgStreaming \in BOOLEAN
    /\ hasHandler \in BOOLEAN
    /\ pc = "start"
    /\ requests = 0
    /\ status = 0
    /\ bodyReads = 0
    /\ delivered = <<>>
    /\ eos = FALSE
    /\ lines = <<>>
    /\ i = 1
    /\ buffer = <<>>
    /\ answer = <<>>
    /\ observed = <<>>
    /\ started = FALSE
    /\ termSeen = FALSE
    /\ result = NoValue
    /\ error = NoErr
    /\ sent = <<>>
    /\ body = NoValue
    /\ calls = [c \in Callers |-> NewCall]
    /\ history = <<>>
    /\ conns = [s \in Slots |-> NoConn]
    /\ alive = TRUE

\* lines 13-25: the body of the request
RequestBody == [model |-> "llama3.1", max_tokens |-> 400, temperature |-> 0,
                stream |-> Stream]

\* line 16: the request is issued and the response arrives
Fetch ==
    /\ pc = "start"
    /\ requests' = requests + 1
    /\ sent' = Append(sent, RequestBody)
    /\ status' \in Statuses
    /\ pc' = "fetched"
    /\ UNCHANGED <<body, outside,
                   cfgStreaming, hasHandler, bodyReads, delivered, eos, lines, i,
                   buffer, answer, observed, started, termSeen, result, error>>

\* lines 27-31
HttpError ==
    /\ pc = "fetched"
    /\ ~Ok(status)
    /\ error' = HttpErr(status)
    /\ pc' = "threw"
    /\ UNCHANGED <<sent, body, outside,
                   cfgStreaming, hasHandler, requests, status, bodyReads, delivered,
                   eos, lines, i, buffer, answer, observed, started, termSeen, result>>

\* the content is returned as received
BufferedAnswer_NoTrim(content) == content

\* line 39
BufferedAnswer(content) == Trim(content)

\* lines 33-42: the body is read and parsed, the handler gets the whole answer
Buffered ==
    /\ pc = "fetched"
    /\ Ok(status)
    /\ ~Stream
    /\ \E content \in Contents :
          /\ answer' = BufferedAnswer(content)
          /\ observed' = Notify(observed, Str(BufferedAnswer(content)))
          /\ result' = Str(BufferedAnswer(content))
          /\ body' = Str(content)
    /\ bodyReads' = bodyReads + 1
    /\ pc' = "returned"
    /\ UNCHANGED <<sent, outside,
                   cfgStreaming, hasHandler, requests, status, delivered, eos,
                   lines, i, buffer, started, termSeen, error>>

\* lines 34-39: response.json() rejects a body that is not JSON, and the
\* destructuring throws on a body without choices[0].message.content
DecodeErr == [name |-> "DecodeError", status |-> 0, text |-> ""]

BufferedDecodeError ==
    /\ pc = "fetched"
    /\ Ok(status)
    /\ ~Stream
    /\ bodyReads' = bodyReads + 1
    /\ error' = DecodeErr
    /\ pc' = "threw"
    /\ UNCHANGED <<sent, body, outside,
                   cfgStreaming, hasHandler, requests, status, delivered, eos, lines,
                   i, buffer, answer, observed, started, termSeen, result>>

\* lines 63-67
BeginStream ==
    /\ pc = "fetched"
    /\ Ok(status)
    /\ Stream
    /\ answer' = <<>>
    /\ buffer' = <<>>
    /\ pc' = "read"
    /\ UNCHANGED <<sent, body, outside,
                   cfgStreaming, hasHandler, requests, status, bodyReads, delivered,
                   eos, lines, i, observed, started, termSeen, result, error>>

\* lines 69-73: read() yields a chunk, of a stream of at most n chunks
ReadChunkUpTo(n) ==
    /\ pc = "read"
    /\ Len(delivered) < n
    /\ \E value \in ChunkMenu :
          /\ delivered' = Append(delivered, value)
          /\ lines' = Split(Decode(value))
    /\ i' = 1
    /\ bodyReads' = bodyReads + 1
    /\ pc' = "lines"
    /\ UNCHANGED <<sent, body, outside,
                   cfgStreaming, hasHandler, requests, status, eos, buffer, answer,
                   observed, started, termSeen, result, error>>

ReadChunk == ReadChunkUpTo(MaxChunks)

\* lines 69-72 and 101: read() reports done, the loop ends, chat returns answer
ReadDone ==
    /\ pc = "read"
    /\ eos' = TRUE
    /\ bodyReads' = bodyReads + 1
    /\ result' = Str(answer)
    /\ pc' = "returned"
    /\ UNCHANGED <<sent, body, outside,
                   cfgStreaming, hasHandler, requests, status, delivered, lines, i,
                   buffer, answer, observed, started, termSeen, error>>

\* the terminator ends the call
AfterLine_ReturnAtMarker(d) ==
    IF d.err THEN "threw"
    ELSE IF d.brk THEN "returned"
    ELSE IF i >= Len(lines) THEN "read"
    ELSE "lines"

\* where the call goes after an iteration of the for loop that left decoder
\* state d: a throw leaves chat, the break or the last line goes back to read
AfterLine(d) ==
    IF d.err THEN "threw"
    ELSE IF d.brk \/ i >= Len(lines) THEN "read"
    ELSE "lines"

\* lines 74-99: one iteration of the for loop
ProcessLine ==
    /\ pc = "lines"
    /\ LET d == LineStep(Cur, lines[i])
       IN  /\ buffer' = d.buffer
           /\ answer' = d.answer
           /\ observed' = d.observed
           /\ started' = d.started
           /\ termSeen' = (termSeen \/ d.brk)
           /\ error' = IF d.err THEN TypeErr ELSE error
           /\ pc' = AfterLine(d)
    /\ i' = i + 1
    /\ UNCHANGED <<sent, body, outside,
                   cfgStreaming, hasHandler, requests, status, bodyReads, delivered,
                   eos, lines, result>>

Next ==
    \/ Fetch
    \/ HttpError
    \/ Buffered
    \/ BufferedDecodeError
    \/ BeginStream
    \/ ReadChunk
    \/ ReadDone
    \/ ProcessLine

Spec == Init /\ [][Next]_vars

\* The same call on the shorter streams, for the liveness properties.  The
\* event loop runs every continuation that is ready, and a pending read is
\* always settled.
ReadChunkLive == ReadChunkUpTo(MaxLiveChunks)

NextLive ==
    \/ Fetch
    \/ HttpError
    \/ Buffered
    \/ BufferedDecodeError
    \/ BeginStream
    \/ ReadChunkLive
    \/ ReadDone
    \/ ProcessLine

FairSpec == Init /\ [][NextLive]_vars /\ WF_vars(NextLive)

(***************************************************************************)
(* Two streaming chat calls in flight side by side.  Every call of chat    *)
(* has its own reader, decoder, answer and buffer (lines 63-67) and its    *)
(* own handler; the code between two awaits runs without interruption, so  *)
(* the calls interleave at the reads of line 69.                           *)
(***************************************************************************)
MaxPairChunks == 2

PairMenu == {DataLine(Hi) \o <<NL>>, DataLine(There) \o <<NL>>,
             HeadPart(DataLine(Hi), 5), TailPart(DataLine(Hi), 5) \o <<NL>>,
             ArrLine \o <<NL>>}

\* answer and buffer live at module level: a call sees the line the other
\* call left pending
Locals_Shared(c) ==
    [calls[c].d EXCEPT !.buffer = IF calls[c].d.buffer = <<>>
                                  THEN calls[3 - c].d.buffer ELSE @]

\* the answer, buffer and handler of call c (lines 10, 66-67)
Locals(c) == calls[c].d

InitPair ==
    /\ Init
    /\ cfgStreaming
    /\ hasHandler

\* lines 10-67: a call is made, gets a success response and sets up its decoder
PairBegin(c) ==
    /\ calls[c].pc \in {"start", "returned", "threw"}
    /\ calls' = [calls EXCEPT ![c] = [NewCall EXCEPT !.pc = "read"]]
    /\ UNCHANGED <<single, history, conns, alive>>

\* lines 69-99: call c reads a chunk and runs its for loop over it
PairRead(c) ==
    /\ calls[c].pc = "read"
    /\ Len(calls[c].delivered) < MaxPairChunks
    /\ \E value \in PairMenu :
          LET e == Feed(Locals(c), value)
          IN  calls' = [calls EXCEPT ![c] =
                           [@ EXCEPT !.delivered = Append(@, value),
                                     !.d = e,
                                     !.pc = IF e.err THEN "threw" ELSE "read"]]
    /\ UNCHANGED <<single, history, conns, alive>>

\* lines 69-72, 101: the read of call c reports done, the call returns
PairDone(c) ==
    /\ calls[c].pc = "read"
    /\ calls' = [calls EXCEPT ![c] =
                    [@ EXCEPT !.pc = "returned", !.result = Str(Locals(c).answer)]]
    /\ UNCHANGED <<single, history, conns, alive>>

NextPair ==
    \/ \E c \in Callers : PairBegin(c)
    \/ \E c \in Callers : PairRead(c)
    \/ \E c \in Callers : PairDone(c)

SpecPair == InitPair /\ [][NextPair]_vars

(***************************************************************************)
(* reply (lines 145-165) and the server (lines 167-214).  A connection is  *)
(* free, or its /chat request is in chat ("chatting"), or chat has         *)
(* returned and the handler's continuation is due ("returned"), or the     *)
(* handler has run to its end ("done"), or the handler has thrown          *)
(* ("failed").  chat is taken by its outcome: it returns an answer, the    *)
(* parts of which the stream handler has written to the response, or it    *)
(* throws (lines 27-31, 34-39, 90).  The duration stored with a history    *)
(* entry is a clock difference no code reads; it is left out.              *)
(***************************************************************************)
MaxEntries == 3
MaxLongEntries == 6

Answers == {Hi, There}

\* the request targets: path and raw query
Urls == {[path |-> "/health", search |-> ""],
         [path |-> "/", search |-> ""],
         [path |-> "/chat", search |-> "q1"],
         [path |-> "/chat", search |-> "q%32"],
         [path |-> "/chat", search |-> "%"],
         [path |-> "/nope", search |-> ""]}

\* decodeURIComponent (line 188): %32 is the character 2, a lone % is malformed
CanDecode(raw) == raw # "%"
DecodeURIComponent(raw) == IF raw = "q%32" THEN "q2" ELSE raw

Message(role, content) == [role |-> role, content |-> content]

\* the first four entries instead of the last four
Relevant_Oldest(h) == SubSeq(h, 1, IF Len(h) < 4 THEN Len(h) ELSE 4)

\* line 150: history.slice(-4)
Relevant(h) == SubSeq(h, (IF Len(h) > 4 THEN Len(h) - 4 ELSE 0) + 1, Len(h))

\* lines 151-160: a user and an assistant message for every relevant entry
RECURSIVE Pairs(_)
Pairs(h) ==
    IF h = <<>> THEN <<>>
    ELSE <<Message("user", <<NL, "Q:", SP, Head(h).inquiry, NL, "A:", SP>>),
           Message("assistant", Head(h).answer)>> \o Pairs(Tail(h))

\* lines 148-161: the messages reply hands to chat
BuildMessages(h, inquiry) ==
    <<Message("system", <<"REPLY_PROMPT">>)>>
        \o Pairs(Relevant(h))
        \o <<Message("user", <<inquiry>>)>>

\* line 203: the entry pushed for a finished call
Entry(c) == [inquiry |-> c.inquiry, answer |-> c.answer]

\* the chat calls that will still push an entry
InFlight == Cardinality({s \in Slots : conns[s].phase \in {"chatting", "returned"}})

\* an async handler that throws leaves an unhandled rejection: the process
\* goes on or exits, as the runtime is set up
Rejected == alive' \in BOOLEAN

\* lines 178-195: a request arrives and the handler runs up to its first
\* await; chat requests are taken while the history stays within n entries
AcceptUpTo(s, url, n) ==
    /\ alive
    /\ conns[s].phase \in {"free", "done", "failed"}
    /\ IF url.path = "/health"
       THEN /\ conns' = [conns EXCEPT ![s] =
                   [NoConn EXCEPT !.phase = "done", !.head = 200,
                                  !.written = <<"OK">>, !.ended = TRUE]]
            /\ UNCHANGED alive
       ELSE IF url.path = "/"
       THEN /\ conns' = [conns EXCEPT ![s] =
                   [NoConn EXCEPT !.phase = "done", !.head = 200,
                                  !.written = <<"index.html">>, !.ended = TRUE]]
            /\ UNCHANGED alive
       ELSE IF url.path = "/chat"
       THEN IF ~CanDecode(url.search)
            THEN /\ conns' = [conns EXCEPT ![s] = [NoConn EXCEPT !.phase = "failed"]]
                 /\ Rejected
            ELSE /\ Len(history) + InFlight < n
                 /\ LET inquiry == DecodeURIComponent(url.search)
                    IN  conns' = [conns EXCEPT ![s] =
                           [NoConn EXCEPT !.phase = "chatting", !.head = 200,
                                          !.inquiry = inquiry,
                                          !.messages = BuildMessages(history, inquiry)]]
                 /\ UNCHANGED alive
       ELSE /\ conns' = [conns EXCEPT ![s] =
                   [NoConn EXCEPT !.phase = "done", !.head = 404, !.ended = TRUE]]
            /\ UNCHANGED alive
    /\ UNCHANGED <<single, calls, history>>

Accept(s, url) == AcceptUpTo(s, url, MaxEntries)

\* lines 162-164: chat returns an answer of as, having written it to the
\* response through the stream handler (line 192); reply returns it with the
\* context
ChatReturnOf(s, as) ==
    /\ alive
    /\ conns[s].phase = "chatting"
    /\ \E a \in as :
          conns' = [conns EXCEPT ![s] =
                       [@ EXCEPT !.phase = "returned", !.messages = <<>>,
                                 !.answer = a, !.written = a]]
    /\ UNCHANGED <<single, calls, history, alive>>

ChatReturn(s) == ChatReturnOf(s, Answers)

\* the failed call leaves an entry with an empty answer
ChatThrow_Logged(s) ==
    /\ alive
    /\ conns[s].phase = "chatting"
    /\ conns' = [conns EXCEPT ![s] = [@ EXCEPT !.phase = "failed", !.messages = <<>>, !.inquiry = ""]]
    /\ history' = Append(history, Entry(conns[s]))
    /\ Rejected
    /\ UNCHANGED <<single, calls>>

\* lines 162, 195: chat throws; neither reply nor the handler catches, so the
\* handler ends there
ChatThrow(s) ==
    /\ alive
    /\ conns[s].phase = "chatting"
    /\ conns' = [conns EXCEPT ![s] = [@ EXCEPT !.phase = "failed", !.messages = <<>>, !.inquiry = ""]]
    /\ Rejected
    /\ UNCHANGED <<single, calls, history>>

\* lines 196-203: the continuation after await reply(context)
Finish(s) ==
    /\ alive
    /\ conns[s].phase = "returned"
    /\ conns' = [conns EXCEPT ![s] =
                    [@ EXCEPT !.phase = "done", !.ended = TRUE,
                              !.inquiry = "", !.answer = <<>>]]
    /\ history' = Append(history, Entry(conns[s]))
    /\ UNCHANGED <<single, calls, alive>>

NextServer ==
    \/ \E s \in Slots, url \in Urls : Accept(s, url)
    \/ \E s \in Slots : ChatReturn(s)
    \/ \E s \in Slots : ChatThrow(s)
    \/ \E s \in Slots : Finish(s)

\* line 192: the server always hands chat a function as handler
InitServer ==
    /\ Init
    /\ hasHandler

SpecServer == InitServer /\ [][NextServer]_vars

\* the same server over a longer history, every call answering alike
AcceptLong(s, url) == AcceptUpTo(s, url, MaxLongEntries)

ChatReturnHi(s) == ChatReturnOf(s, {Hi})

NextLong ==
    \/ \E s \in Slots, url \in Urls : AcceptLong(s, url)
    \/ \E s \in Slots : ChatReturnHi(s)
    \/ \E s \in Slots : ChatThrow(s)
    \/ \E s \in Slots : Finish(s)

SpecLong == InitServer /\ [][NextLong]_vars

(***************************************************************************)
(* Properties                                                              *)
(***************************************************************************)
\* the texts of the content fragments the upstream sends
FragmentTexts == {Hi, There, Blank, HiSpace, <<>>}

\* a chunk that is exactly one SSE delta event with a string content
IsDeltaChunk(c) == \E x \in FragmentTexts : c = DataLine(x) \o <<NL>>
DeltaText(c) == CHOOSE x \in FragmentTexts : c = DataLine(x) \o <<NL>>

\* the answer text T that a sequence of delta chunks spells
RECURSIVE TextOf(_)
TextOf(cs) == IF cs = <<>> THEN <<>> ELSE DeltaText(Head(cs)) \o TextOf(Tail(cs))

\* the in-order concatenation of the fragments the observer received
RECURSIVE ConcatFragments(_)
ConcatFragments(o) ==
    IF o = <<>> THEN <<>> ELSE ToText(Head(o)) \o ConcatFragments(Tail(o))

\* the value parse returns in the pending iteration of the for loop, Null
\* when the iteration does not reach parse
Fragment ==
    IF pc # "lines" THEN Null
    ELSE LET line == buffer \o lines[i]
         IN  IF IsComment(line) \/ IsTerminator(line) \/ Len(line) = 0 THEN Null
             ELSE parse(line)

\* C1 (as claimed): for every answer text T and every split of T into delta
\* fragments, the streaming call returns what the buffered call returns on
\* the JSON response with content T.
C1_ModeEquivalence ==
    (Stream /\ pc = "returned" /\ \A j \in 1..Len(delivered) : IsDeltaChunk(delivered[j]))
        => result = Str(BufferedAnswer(TextOf(delivered)))

\* C2: in a streaming call the concatenation of the fragments passed to the
\* observer equals answer after every processed line, and the returned
\* string equals the concatenation of all fragments the observer received.
C2_FragmentConcatenation ==
    Stream => /\ ConcatFragments(observed) = answer
              /\ pc = "returned" => result = Str(ConcatFragments(observed))

C2_Witness ==
    /\ Stream
    /\ pc = "returned"
    /\ Len(observed) = 2
    /\ delivered[1] = DataLine(HiSpace) \o <<NL>>
    /\ observed[1] = Str(Hi)

\* the data lines of a well-formed stream: a delta with a string content,
\* with an empty content, or with no content
DeltaLines == {DataLine(x) : x \in FragmentTexts} \cup {DataLine(<<E1, E2>>), NoContentLine}

\* what the caller can see of a decoder: the answer, the pending line, the
\* observer notifications
Visible(d) == <<d.answer, d.buffer, d.observed, d.err>>

\* C3 (as claimed): from any state in which the call waits for a chunk, for
\* every data line and every split offset inside it, the line delivered as
\* two chunks (first part, then the rest with its newline) leaves the same
\* answer and pending line and makes the same observer notifications as the
\* line delivered whole in one chunk.
C3_SplitLineReassembly ==
    pc = "read" =>
        \A l \in DeltaLines : \A k \in 1..(Len(l) - 1) :
            Visible(FeedAll(Cur, <<HeadPart(l, k), TailPart(l, k) \o <<NL>>>>))
                = Visible(Feed(Cur, l \o <<NL>>))

\* C4 (as claimed): with no line pending, a comment line delivered between
\* the two halves of a split data line changes neither the answer nor the
\* observer notifications.
C4_CommentImmunity ==
    (pc = "read" /\ buffer = <<>>) =>
        \A l \in DeltaLines : \A k \in 1..(Len(l) - 1) :
            LET with == FeedAll(Cur, <<HeadPart(l, k), CommentLine \o <<NL>>,
                                       TailPart(l, k) \o <<NL>>>>)
                without == Feed(Cur, l \o <<NL>>)
            IN  /\ with.answer = without.answer
                /\ with.observed = without.observed

\* the pending iteration takes a string fragment of length > 0
TakesText == Fragment.k = "str" /\ Len(Fragment.v) > 0

\* s is a prefix of t
IsPrefix(s, t) == Len(s) <= Len(t) /\ s = SubSeq(t, 1, Len(s))

\* C5 (as claimed): every non-empty fragment after the first non-empty one,
\* also after a first fragment of white space only, is appended to answer and
\* delivered to the observer verbatim.
C5_SingleTrimAfterFirst ==
    [][(TakesText /\ started)
          => /\ answer' = answer \o Fragment.v
             /\ observed' = Append(observed, Fragment)]_vars

\* C5 (amended): a fragment taken while answer is still empty is stored and
\* delivered without its leading white space (and is not delivered when
\* nothing is left of it); every non-empty fragment taken once answer is
\* non-empty is appended to answer and delivered to the observer verbatim.
C5_SingleTrim ==
    [][TakesText
          => IF answer = <<>>
             THEN /\ IsPrefix(answer', TrimStart(Fragment.v))
                  /\ (TrimStart(Fragment.v) # <<>> => answer' # <<>>)
                  /\ observed' = IF answer' # <<>>
                                 THEN Append(observed, Str(answer')) ELSE observed
             ELSE /\ answer' = answer \o Fragment.v
                  /\ observed' = Append(observed, Fragment)]_vars

C5_Witness ==
    /\ Stream
    /\ pc = "read"
    /\ delivered = <<DataLine(Blank) \o <<NL>>, DataLine(There) \o <<NL>>,
                     DataLine(There) \o <<NL>>>>
    /\ observed = <<Str(<<"there">>), Str(There)>>

\* the chunks of the termination scenario
HiChunk        == DataLine(Hi) \o <<NL>>
DoneThereChunk == DoneLine \o <<NL>> \o DataLine(There) \o <<NL>>

\* C6: when the line of the pending iteration is the terminator, the for loop
\* is left: the call goes back to read the next chunk with answer, pending
\* line and observer untouched, and no later line of the chunk is processed.
\* Whatever the state in which a chunk is awaited, a data line that follows
\* the terminator line in one chunk changes neither answer nor the observer
\* notifications.  For the chunks [Hi line], [terminator, " there" line] the
\* observer gets only "Hi" and "Hi" is returned.
C6_SameChunkTermination ==
    /\ [][(pc = "lines" /\ IsTerminator(buffer \o lines[i]))
             => /\ pc' = "read"
                /\ answer' = answer
                /\ observed' = observed
                /\ buffer' = buffer]_vars
    /\ [](pc = "read"
             => \A l \in DeltaLines \cup {ArrLine} :
                   LET d == Feed(Cur, DoneLine \o <<NL>> \o l \o <<NL>>)
                   IN  d.answer = answer /\ d.observed = observed)
    /\ [](delivered = <<HiChunk, DoneThereChunk>>
             => /\ pc = "lines" => i <= 1
                /\ pc = "read" => (answer = Hi /\ observed = <<Str(Hi)>>)
                /\ pc = "returned" => result = Str(Hi))

C6_Witness ==
    /\ delivered = <<HiChunk, DoneThereChunk>>
    /\ pc = "returned"
    /\ termSeen
    /\ observed = <<Str(Hi)>>

\* C7: a streaming call has returned exactly when a read has reported done,
\* and then with the accumulated answer; the iteration that sees the
\* termination marker does not return; and once the stream holds no more
\* chunks the call waiting in read eventually returns.
C7_ReturnOnEndOfStream ==
    /\ [](Stream => /\ eos <=> pc = "returned"
                    /\ pc = "returned" => result = Str(answer))
    /\ [][(pc = "lines" /\ IsTerminator(buffer \o lines[i])) => pc' # "returned"]_vars
    /\ (Stream /\ pc = "read" /\ Len(delivered) = MaxLiveChunks) ~> (pc = "returned")

C7_Witness ==
    /\ Stream
    /\ delivered = <<DoneLine \o <<NL>>, HiChunk>>
    /\ termSeen
    /\ eos
    /\ pc = "returned"
    /\ result = Str(Hi)

\* C8 (as claimed): whatever the chunks, a streaming call whose response was
\* a success never ends in an error, and it has returned once the stream ended.
C8_ParseFailuresNeverAbort ==
    (Stream /\ Ok(status)) => /\ pc # "threw"
                              /\ error = NoErr

\* a status outside 200..299
NonSuccess(s) == s < 200 \/ s > 299

\* C9: once a response with a non-success status has arrived, the call can
\* only throw: the error carries the status code and text, the observer is
\* never invoked, nothing is returned, the body is never read, and exactly one
\* request was issued.
C9_TransportError ==
    (pc # "start" /\ NonSuccess(status))
        => /\ pc \in {"fetched", "threw"}
           /\ requests = 1
           /\ bodyReads = 0
           /\ observed = <<>>
           /\ result = NoValue
           /\ pc = "threw" => error = [name |-> "Error", status |-> status,
                                       text |-> StatusText(status)]

C9_Witness ==
    /\ pc = "threw"
    /\ status = 404
    /\ error = [name |-> "Error", status |-> 404, text |-> "Not Found"]

\* C10: an iteration whose line parses to a delta with absent content or
\* with the empty string as content does not invoke the observer and leaves
\* answer unchanged.
C10_EmptyDeltaTolerance ==
    [][(Fragment = Undefined \/ Fragment = Str(<<>>))
          => /\ answer' = answer
             /\ observed' = observed]_vars

C10_Witness ==
    /\ Stream
    /\ pc = "read"
    /\ delivered = <<HiChunk, NoContentLine \o <<NL>>, DataLine(<<>>) \o <<NL>>>>
    /\ answer = Hi
    /\ observed = <<Str(Hi)>>

\* the decoder branch the call has entered
InStreaming == pc \in {"read", "lines"} \/ eos \/ delivered # <<>> \/ error = TypeErr
InBuffered  == (pc = "returned" /\ ~eos) \/ error = DecodeErr

\* C11: the stream flag of the request is true exactly when streaming is
\* enabled by configuration and the handler is a function, and the call
\* enters the streaming decoder exactly then; otherwise (no handler, or
\* streaming disabled) it enters the buffered branch.
C11_ModeSelection ==
    /\ \A j \in 1..Len(sent) : sent[j].stream = (cfgStreaming /\ hasHandler)
    /\ InStreaming => (cfgStreaming /\ hasHandler)
    /\ InBuffered => ~(cfgStreaming /\ hasHandler)
    /\ pc = "returned" => (InStreaming \/ InBuffered)

C11_Witness ==
    /\ cfgStreaming
    /\ ~hasHandler
    /\ Len(sent) = 1
    /\ sent[1].stream = FALSE
    /\ InBuffered
    /\ pc = "returned"

\* t is s without its leading and its trailing white space
IsTrimOf(t, s) ==
    /\ \E a, b \in 0..Len(s) :
          /\ a + b <= Len(s)
          /\ t = SubSeq(s, a + 1, Len(s) - b)
          /\ \A j \in 1..a : IsSpace(s[j])
          /\ \A j \in (Len(s) - b + 1)..Len(s) : IsSpace(s[j])
    /\ t # <<>> => (~IsSpace(t[1]) /\ ~IsSpace(t[Len(t)]))

\* C12: a buffered call returns the message content without its leading and
\* trailing white space; with a handler the handler was invoked exactly once,
\* with that text, and without a handler nothing was invoked.
C12_BufferedDecoding ==
    (pc = "returned" /\ ~eos)
        => /\ body.k = "str"
           /\ result.k = "str"
           /\ IsTrimOf(result.v, body.v)
           /\ observed = IF hasHandler THEN <<result>> ELSE <<>>

C12_Witness ==
    /\ pc = "returned"
    /\ ~eos
    /\ hasHandler
    /\ body = Str(<<SP, "Hi", SP>>)
    /\ result = Str(Hi)
    /\ observed = <<Str(Hi)>>

\* C13 (as claimed): whenever the line of an iteration parses (parse returns
\* something other than null: a content, or undefined for an absent content),
\* buffer is empty after the iteration, whatever was pending before.
C13_PendingClearedOnParse ==
    [][Fragment # Null => buffer' = <<>>]_vars

\* C14 (as claimed): the first fragment taken is stored in answer, and given
\* to the observer, with its leading white space removed and its trailing
\* white space kept.
C14_FirstFragmentLeftTrim ==
    [][(TakesText /\ answer = <<>>)
          => /\ answer' = TrimStart(Fragment.v)
             /\ (hasHandler /\ answer' # <<>>)
                   => observed' = Append(observed, Str(TrimStart(Fragment.v)))]_vars

\* well-formed data lines whose content is a text that is not empty, also
\* after trimming
ContentLines == {DataLine(Hi), DataLine(There), DataLine(HiSpace)}

\* the line of the pending iteration is a whole line of the stream: it starts
\* after a newline (or at the start of the stream) and a newline follows it
WholeLine ==
    /\ pc = "lines"
    /\ i < Len(lines)
    /\ (i = 1 /\ Len(delivered) > 1)
          => LET prev == delivered[Len(delivered) - 1]
             IN  prev # <<>> /\ prev[Len(prev)] = NL

\* C15 (as claimed): once the terminator has been processed, every
\* well-formed data line with a non-empty content that arrives whole in a
\* later chunk is appended to answer and delivered to the observer.
C15_ReadingContinuesPastTerminator ==
    [][(termSeen /\ WholeLine /\ lines[i] \in ContentLines)
          => /\ IsPrefix(answer, answer')
             /\ answer' # answer
             /\ Len(observed') = Len(observed) + 1]_vars

\* complete lines that never parse: a line without the data prefix, a data
\* line with invalid JSON, a data line whose JSON has no choices
MalformedLines == {OtherLine, BadJsonLine, NoChoicesLine}

\* every chunk read so far is one whole line, malformed or with a text content
WholeLinesOnly ==
    \A j \in 1..Len(delivered) :
        delivered[j] \in {l \o <<NL>> : l \in MalformedLines \cup ContentLines}

\* C19 (as claimed): in a stream of whole lines in which a malformed line has
\* gone by, every later well-formed data line with a content is appended to
\* answer and delivered to the observer.
C19_MalformedLineTransient ==
    [][(/\ WholeLinesOnly
        /\ WholeLine
        /\ lines[i] \in ContentLines
        /\ \E j \in 1..(Len(delivered) - 1) :
              delivered[j] \in {l \o <<NL>> : l \in MalformedLines})
          => /\ IsPrefix(answer, answer')
             /\ answer' # answer
             /\ Len(observed') = Len(observed) + 1]_vars

\* the decoder of call c had the call run alone on the chunks it has read
Alone(c) == FeedAll(Fresh, calls[c].delivered)

\* C16: with two streaming calls in flight and their reads interleaved in
\* any order, the answer, the pending line and the observer notifications of
\* each call are those of the call running alone on its own chunks from an
\* empty answer and an empty pending line; a call returns its own answer,
\* and a step of one call leaves the other call as it was.
C16_DecoderIsolation ==
    /\ [](\A c \in Callers :
            /\ calls[c].pc # "start" => Visible(calls[c].d) = Visible(Alone(c))
            /\ calls[c].pc = "returned" => calls[c].result = Str(Alone(c).answer)
            /\ calls[c].pc = "threw" <=> Alone(c).err)
    /\ [][\A c \in Callers : calls'[c] # calls[c] => calls'[3 - c] = calls[3 - c]]_vars

C16_Witness ==
    /\ calls[1].pc = "read"
    /\ calls[1].delivered = <<HeadPart(DataLine(Hi), 5)>>
    /\ calls[1].d.buffer # <<>>
    /\ calls[2].pc = "read"
    /\ calls[2].delivered = <<DataLine(Hi) \o <<NL>>, DataLine(There) \o <<NL>>>>
    /\ calls[2].d.answer = Hi \o There
    /\ calls[2].d.observed = <<Str(Hi), Str(There)>>

\* C17: under any interleaving of /chat requests the history changes only
\* by the step that ends the response of a call that has returned, which
\* appends one entry holding that call's inquiry and the answer chat
\* returned; every returned call gets its entry this way, entries are never
\* removed, a failed call appends nothing, and while a call is in chat or
\* reply its response is not ended and the history is not touched by it.
C17_HistoryAppend ==
    /\ [][history' # history
             => \E s \in Slots :
                   /\ conns[s].phase = "returned"
                   /\ conns'[s].phase = "done"
                   /\ conns'[s].ended
                   /\ history' = Append(history, [inquiry |-> conns[s].inquiry,
                                                  answer |-> conns[s].answer])]_vars
    /\ [][\A s \in Slots :
             (conns[s].phase = "returned" /\ conns'[s] # conns[s])
                => Len(history') = Len(history) + 1]_vars
    /\ [][\A s \in Slots :
             (conns[s].phase = "chatting" /\ conns'[s] # conns[s])
                => history' = history]_vars
    /\ [](\A s \in Slots :
             conns[s].phase \in {"chatting", "returned"} => ~conns[s].ended)

C17_Witness ==
    /\ history = <<[inquiry |-> "q2", answer |-> There]>>
    /\ conns[1].phase = "failed"
    /\ conns[1].head = 200
    /\ conns[2].phase = "done"
    /\ conns[2].ended
    /\ conns[2].written = There

\* C18: whatever the length n of the history when reply is called, the
\* messages handed to chat are 2 * min(n, 4) + 2 in number: first the one
\* system message, then, for the last min(n, 4) entries of the history in
\* their order, a user message with the entry's inquiry and an assistant
\* message with its answer, and last a user message holding the current
\* inquiry.
C18_MessageConstruction ==
    [][\A s \in Slots :
          (conns'[s].phase = "chatting" /\ conns[s].phase # "chatting")
             => LET m == conns'[s].messages
                    n == Len(history)
                    k == IF n < 4 THEN n ELSE 4
                IN  /\ Len(m) = 2 * k + 2
                    /\ m[1].role = "system"
                    /\ \A j \in 2..Len(m) : m[j].role # "system"
                    /\ m[Len(m)] = [role |-> "user", content |-> <<conns'[s].inquiry>>]
                    /\ \A j \in 1..k :
                          LET en == history[n - k + j]
                          IN  /\ m[2 * j].role = "user"
                              /\ \E x \in 1..Len(m[2 * j].content) :
                                    m[2 * j].content[x] = en.inquiry
                              /\ m[2 * j + 1] = [role |-> "assistant",
                                                 content |-> en.answer]]_vars

C18_Witness ==
    /\ Len(history) = 5
    /\ history[1].inquiry = "q1"
    /\ history[2].inquiry = "q2"
    /\ conns[1].phase = "chatting"
    /\ conns[1].inquiry = "q1"
    /\ Len(conns[1].messages) = 10
    /\ conns[1].messages[2].content[4] = "q2"
    /\ conns[1].messages[10].content = <<"q1">>

\* C20 (as claimed): every /chat request whose upstream call has terminated,
\* by returning or by throwing, and whose handler has nothing left to run,
\* has had its response ended.
C20_EventuallyClosed ==
    \A s \in Slots :
        (conns[s].head = 200 /\ conns[s].phase \in {"done", "failed"})
            => conns[s].ended

====
